---- MODULE Spec2Model ----
(***************************************************************************)
(* Model of the double-pulley demonstration (src/src/main.rs): the         *)
(* DemonstrationSettings resource, the RestartEvent / CleanTraceEvent      *)
(* queues, the entity world with its deferred command buffer, and the     *)
(* systems main() registers, run frame by frame in the order of the Main  *)
(* schedule: Startup (once), First, FixedUpdate (0..n runs), Update.       *)
(*                                                                         *)
(* f32 quantities are fixed-point integers, Scale units per 1.0.  The      *)
(* z coordinate of every Vec3 in the program is 0.0 and is left out.       *)
(***************************************************************************)
EXTENDS Integers, Sequences, FiniteSets, TLC

VARIABLES
    settings,       \* the DemonstrationSettings resource
    world,          \* the entities that exist, with their components
    queue,          \* Commands queued by the systems of the running schedule
    restartEvents,  \* Events<RestartEvent> not yet read: <<older buffer, newer buffer>>
    cleanEvents,    \* Events<CleanTraceEvent> not yet read: <<older buffer, newer buffer>>
    nextId,         \* next entity id Commands::spawn reserves
    meshes,         \* number of assets added to Assets<Mesh>
    materials,      \* number of assets added to Assets<StandardMaterial>
    phase,          \* position in the Main schedule
    pending,        \* systems of Update that have not run yet in this frame
    fixedRuns,      \* runs of FixedUpdate in this frame
    inputs,         \* widget interactions so far
    generation      \* RestartEvents handled so far (history)

vars == <<settings, world, queue, restartEvents, cleanEvents, nextId, meshes,
          materials, phase, pending, fixedRuns, inputs, generation>>

----------------------------------------------------------------------------
(* Bounds of the exploration *)

MaxInputs == 3
MaxMarkers == 2
MaxFixedSteps == 2

(* One unit of f32 is Scale fixed-point units *)
Scale == 1000

Fx(n) == n * Scale

----------------------------------------------------------------------------
(* Values a user can ask a slider for (before the slider clamps them) *)

SliderNames == {"m1", "m2", "mc", "l", "x_0"}

Requests(s) ==
    CASE s = "m1" -> {Fx(0)}
      [] s = "m2" -> {Fx(200)}
      [] s = "mc" -> {Fx(50)}
      [] s = "l" -> {Fx(0), Fx(30)}
      [] s = "x_0" -> {-Fx(30), Fx(30)}

----------------------------------------------------------------------------
(* impl Default for DemonstrationSettings; a handle of 0 is None *)

DefaultSettings ==
    [ m1 |-> Fx(10), m2 |-> Fx(10), mc |-> Fx(10), l |-> Fx(10), x_0 |-> -Fx(5),
      enable_tracing |-> FALSE, tracing_material |-> 0, tracing_mesh |-> 0 ]

----------------------------------------------------------------------------
(* Arithmetic *)

(* The one element of a singleton set *)
The(S) == CHOOSE x \in S : TRUE

(* The largest r with r * r <= n, found bit by bit from bit b down *)
RECURSIVE SqrtSearch(_, _, _)
SqrtSearch(n, r, b) ==
    IF b = 0 THEN r
    ELSE The({ SqrtSearch(n, x, h) :
                 x \in {IF r + b <= 46340 /\ (r + b) * (r + b) <= n
                        THEN r + b ELSE r},
                 h \in {b \div 2} })

(* f32::sqrt of a fixed-point square: the nearest integer to the root *)
Sqrt(n) ==
    The({ IF m - r * r > r THEN r + 1 ELSE r :
            m \in {n}, r \in {The({SqrtSearch(k, 0, 32768) : k \in {n}})} })

(* a / b on fixed-point values, rounded to nearest *)
Div(a, b) ==
    The({ IF x < 0 THEN -((2 * (-x) * Scale + y) \div (2 * y))
                   ELSE (2 * x * Scale + y) \div (2 * y) :
            x \in {a}, y \in {b} })

(* Vec3::length of (dx, dy, 0) *)
Length(dx, dy) == The({ Sqrt(x * x + y * y) : x \in {dx}, y \in {dy} })

----------------------------------------------------------------------------
(* Entities.  mesh = 0: no Handle<Mesh> component.  a, b, len: the bodies  *)
(* and the cable length of a pulley constraint.  sy: the y the entity was  *)
(* spawned at; gen: the RestartEvent during which it was created (history).*)
(* lin_vel, ang_vel: the velocities of a rigid body, Vec3::ZERO wherever   *)
(* the program spawns one (lines 261-262, 274-275, 285-286).               *)

Entity(id, role, gen, mass, x, y, a, b, len, mesh, material) ==
    [ id |-> id, role |-> role, gen |-> gen, mass |-> mass, x |-> x, y |-> y,
      sy |-> y, a |-> a, b |-> b, len |-> len, mesh |-> mesh,
      material |-> material, LeaveTrace |-> FALSE, MeshTrace |-> FALSE,
      lin_vel |-> 0, ang_vel |-> 0 ]

NoEntity == Entity(0, "none", 0, 0, 0, 0, 0, 0, 0, 0, 0)

SceneRoles == {"side", "central", "pulley", "decoration", "marker"}

(* Commands *)
SpawnCmd(e) == [ op |-> "spawn", id |-> e.id, ent |-> e ]
DespawnCmd(id) == [ op |-> "despawn", id |-> id, ent |-> NoEntity ]
InsertLeaveTraceCmd(id) == [ op |-> "insert", id |-> id, ent |-> NoEntity ]

(* Query iteration order: by entity id *)
IdsInOrder(S) ==
    [ k \in 1..Cardinality(S) |->
        CHOOSE i \in S : Cardinality({j \in S : j < i}) = k - 1 ]

Ids(W) == {e.id : e \in W}

(* Mutant of Despawn: despawning an entity that does not exist is a fault  *)
(* that takes the whole world down                                         *)
DespawnPanicsOnMissing(W, id) ==
    IF id \in Ids(W) THEN {e \in W : e.id # id} ELSE {}

(* World::despawn: an entity that does not exist is left alone (a warning) *)
Despawn(W, id) == {e \in W : e.id # id}

(* One command applied to the world *)
ApplyCommand(W, c) ==
    CASE c.op = "spawn" -> W \cup {c.ent}
      [] c.op = "despawn" -> Despawn(W, c.id)
      [] c.op = "insert" ->
            {IF e.id = c.id THEN [e EXCEPT !.LeaveTrace = TRUE] ELSE e : e \in W}

(* apply_deferred: the queued commands, in order *)
RECURSIVE ApplyCommands(_, _)
ApplyCommands(W, q) ==
    IF q = <<>> THEN W
    ELSE ApplyCommands(ApplyCommand(W, Head(q)), Tail(q))

----------------------------------------------------------------------------
(* The placement restart_simulation computes (lines 235-250) *)

HalfL(s) == s.l \div 2

(* equilibrium_pos.y = -half_l / f32::sqrt(3.0) *)
EquilibriumY(s) == -Div(HalfL(s), Sqrt(3 * Scale * Scale))

(* b_central_pos.y = equilibrium_pos.y + equilibrium_offset *)
CentralY(s) == EquilibriumY(s) + s.x_0

(* Mutant of Pulley1X: the span is not halved *)
Pulley1XFullSpan(s) == -s.l

Pulley1X(s) == -HalfL(s)
Pulley2X(s) == HalfL(s)

ConstraintDistance(s) == 3 * HalfL(s)

(* Mutant of VerticalOffset: the distance is taken to the equilibrium      *)
(* point, without the initial offset                                       *)
VerticalOffsetFromEquilibrium(s) ==
    ConstraintDistance(s) - Length(0 - Pulley1X(s), EquilibriumY(s) - 0)

(* constraint_distance - (b_central_pos - pulley1_pos).length() *)
VerticalOffset(s) ==
    ConstraintDistance(s) - Length(0 - Pulley1X(s), CentralY(s) - 0)

(* b1_pos.y, b2_pos.y = pulley.y + (-vertical_offset) *)
SideY(s) == 0 - VerticalOffset(s)

----------------------------------------------------------------------------
(* One iteration of the loop of restart_simulation (lines 230-329).  olds  *)
(* is what meshes_query yields: it is fixed when the system starts.  st    *)
(* carries the command queue and the counters through the iterations.      *)

(* Mutant of RestartOnce: the second pulley is given the handle of the     *)
(* first side body                                                         *)
RestartOnceSecondPulleyOnB1(s, olds, st) ==
    LET g == st.generation + 1
        i == st.nextId
        me == st.meshes
        ma == st.materials
        despawns == [k \in 1..Len(olds) |-> DespawnCmd(olds[k])]
        b1 == Entity(i, "side", g, s.m1, Pulley1X(s), SideY(s), 0, 0, 0,
                     me + 1, ma + 1)
        b2 == Entity(i + 1, "side", g, s.m2, Pulley2X(s), SideY(s), 0, 0, 0,
                     me + 2, ma + 2)
        central_body == Entity(i + 2, "central", g, s.mc, 0, CentralY(s), 0, 0, 0,
                               me + 3, ma + 3)
        p1 == Entity(i + 3, "pulley", g, 0, Pulley1X(s), 0, b1.id, central_body.id,
                     ConstraintDistance(s), me + 4, ma + 4)
        p2 == Entity(i + 4, "pulley", g, 0, Pulley2X(s), 0, b1.id, central_body.id,
                     ConstraintDistance(s), me + 5, ma + 7)
        eq == Entity(i + 5, "decoration", g, 0, 0, EquilibriumY(s), 0, 0, 0,
                     me + 6, ma + 10)
    IN  [ q |-> st.q \o despawns \o
                << SpawnCmd(b1), SpawnCmd(b2), SpawnCmd(central_body),
                   InsertLeaveTraceCmd(central_body.id),
                   SpawnCmd(p1), SpawnCmd(p2), SpawnCmd(eq) >>,
          nextId |-> i + 6,
          meshes |-> me + 6,
          materials |-> ma + 10,
          generation |-> g ]

RestartOnce(s, olds, st) ==
    LET g == st.generation + 1
        i == st.nextId
        me == st.meshes
        ma == st.materials
        despawns == [k \in 1..Len(olds) |-> DespawnCmd(olds[k])]
        b1 == Entity(i, "side", g, s.m1, Pulley1X(s), SideY(s), 0, 0, 0,
                     me + 1, ma + 1)
        b2 == Entity(i + 1, "side", g, s.m2, Pulley2X(s), SideY(s), 0, 0, 0,
                     me + 2, ma + 2)
        central_body == Entity(i + 2, "central", g, s.mc, 0, CentralY(s), 0, 0, 0,
                               me + 3, ma + 3)
        p1 == Entity(i + 3, "pulley", g, 0, Pulley1X(s), 0, b1.id, central_body.id,
                     ConstraintDistance(s), me + 4, ma + 4)
        p2 == Entity(i + 4, "pulley", g, 0, Pulley2X(s), 0, b2.id, central_body.id,
                     ConstraintDistance(s), me + 5, ma + 7)
        eq == Entity(i + 5, "decoration", g, 0, 0, EquilibriumY(s), 0, 0, 0,
                     me + 6, ma + 10)
    IN  [ q |-> st.q \o despawns \o
                << SpawnCmd(b1), SpawnCmd(b2), SpawnCmd(central_body),
                   InsertLeaveTraceCmd(central_body.id),
                   SpawnCmd(p1), SpawnCmd(p2), SpawnCmd(eq) >>,
          nextId |-> i + 6,
          meshes |-> me + 6,
          materials |-> ma + 10,
          generation |-> g ]

(* for _ev in ev_restart.read() { ... } with n events to read *)
RECURSIVE RestartLoop(_, _, _, _)
RestartLoop(n, s, olds, st) ==
    IF n = 0 THEN st
    ELSE RestartLoop(n - 1, s, olds, RestartOnce(s, olds, st))

----------------------------------------------------------------------------
(* egui::Slider::new(&mut value, lo..=hi): an untouched slider leaves the  *)
(* value as it is; an edit stores the requested value clamped to the range *)

(* Mutant of Clamp: the lower end of the range is not enforced *)
ClampUpperOnly(v, lo, hi) == IF v > hi THEN hi ELSE v

Clamp(v, lo, hi) == IF v < lo THEN lo ELSE IF v > hi THEN hi ELSE v

Slider(cur, lo, hi, touched, req) ==
    IF touched THEN Clamp(req, lo, hi) ELSE cur

----------------------------------------------------------------------------
Init ==
    /\ settings = DefaultSettings
    /\ world = {}
    /\ queue = <<>>
    /\ restartEvents = <<0, 0>>
    /\ cleanEvents = <<0, 0>>
    /\ nextId = 1
    /\ meshes = 0
    /\ materials = 0
    /\ phase = "startup"
    /\ pending = {}
    /\ fixedRuns = 0
    /\ inputs = 0
    /\ generation = 0

(* EventWriter::send: the event goes to the newer buffer *)
Send(ev) == <<ev[1], ev[2] + 1>>

(* EventReader::read: the number of events the handler iterates over *)
Unread(ev) == ev[1] + ev[2]

(* Mutant of setup_camera_and_light: no RestartEvent is sent *)
setup_without_restart ==
    /\ phase = "startup"
    /\ world' = ApplyCommands(world,
                  << SpawnCmd(Entity(nextId, "light", 0, 0, 0, 0, 0, 0, 0, 0, 0)),
                     SpawnCmd(Entity(nextId + 1, "camera", 0, 0, 0, -Fx(10), 0, 0, 0, 0, 0)) >>)
    /\ nextId' = nextId + 2
    /\ phase' = "first"
    /\ fixedRuns' = MaxFixedSteps
    /\ UNCHANGED <<settings, queue, restartEvents, cleanEvents, meshes, materials,
                   pending, inputs, generation>>

(* Startup: setup_camera_and_light (lines 119-151); its commands are       *)
(* applied when the Startup schedule ends.  No time has passed in the      *)
(* first frame, so FixedUpdate does not run in it.                         *)
setup_camera_and_light ==
    /\ phase = "startup"
    /\ world' = ApplyCommands(world,
                  << SpawnCmd(Entity(nextId, "light", 0, 0, 0, 0, 0, 0, 0, 0, 0)),
                     SpawnCmd(Entity(nextId + 1, "camera", 0, 0, 0, -Fx(10), 0, 0, 0, 0, 0)) >>)
    /\ nextId' = nextId + 2
    /\ restartEvents' = Send(restartEvents)
    /\ phase' = "first"
    /\ fixedRuns' = MaxFixedSteps
    /\ UNCHANGED <<settings, queue, cleanEvents, meshes, materials, pending,
                   inputs, generation>>

(* The systems main() adds to Update with no order between them (lines    *)
(* 111-115); simulation_settings_ui touches none of the state modelled     *)
UpdateSystems == {"demo_settings_ui", "restart_simulation", "clean_trace"}

(* First: event_update_system (add_event, lines 108-109): Events::update   *)
(* drops the older buffer and makes the newer one the older                *)
EventsUpdate(ev) == <<ev[2], 0>>

First ==
    /\ phase = "first"
    /\ restartEvents' = EventsUpdate(restartEvents)
    /\ cleanEvents' = EventsUpdate(cleanEvents)
    /\ pending' = UpdateSystems
    /\ phase' = "fixed"
    /\ UNCHANGED <<settings, world, queue, nextId, meshes, materials, fixedRuns,
                   inputs, generation>>

(* Mutant of TraceMarkers: the marker is put where the entity was spawned, *)
(* not where it is now                                                     *)
TraceMarkersAtSpawn(W, s, ids, first) ==
    [ k \in 1..Len(ids) |->
        LET t == CHOOSE e \in W : e.id = ids[k]
        IN  SpawnCmd([ Entity(first + k - 1, "marker", generation, 0, t.x, t.sy,
                              0, 0, 0, s.tracing_mesh, s.tracing_material)
                       EXCEPT !.MeshTrace = TRUE ]) ]

(* The markers leave_trace_system spawns (lines 78-88): one for each        *)
(* transform the query With<LeaveTrace> yields                             *)
TraceMarkers(W, s, ids, first) ==
    [ k \in 1..Len(ids) |->
        LET t == CHOOSE e \in W : e.id = ids[k]
        IN  SpawnCmd([ Entity(first + k - 1, "marker", generation, 0, t.x, t.y,
                              0, 0, 0, s.tracing_mesh, s.tracing_material)
                       EXCEPT !.MeshTrace = TRUE ]) ]

(* Mutant of leave_trace_system: the handles are created on every run,     *)
(* whether they are set or not                                             *)
leave_trace_system_fresh_handles ==
    /\ phase = "fixed"
    /\ fixedRuns < MaxFixedSteps
    /\ Cardinality({e \in world : e.MeshTrace}) < MaxMarkers
    /\ LET s == [settings EXCEPT !.tracing_mesh = meshes + 1,
                                 !.tracing_material = materials + 1]
           transforms == IdsInOrder(Ids({e \in world : e.LeaveTrace}))
           cmds == IF ~s.enable_tracing THEN <<>>
                   ELSE TraceMarkers(world, s, transforms, nextId)
       IN  /\ settings' = s
           /\ meshes' = meshes + 1
           /\ materials' = materials + 1
           /\ nextId' = nextId + Len(cmds)
           /\ world' = ApplyCommands(world, cmds)
    /\ fixedRuns' = fixedRuns + 1
    /\ UNCHANGED <<queue, restartEvents, cleanEvents, phase, pending, inputs,
                   generation>>

(* FixedUpdate: leave_trace_system (lines 52-89), then the commands of the *)
(* schedule are applied                                                    *)
leave_trace_system ==
    /\ phase = "fixed"
    /\ fixedRuns < MaxFixedSteps
    /\ Cardinality({e \in world : e.MeshTrace}) < MaxMarkers
    /\ LET mesh == IF settings.tracing_mesh = 0 THEN meshes + 1
                   ELSE settings.tracing_mesh
           material == IF settings.tracing_material = 0 THEN materials + 1
                       ELSE settings.tracing_material
           s == [settings EXCEPT !.tracing_mesh = mesh,
                                 !.tracing_material = material]
           transforms == IdsInOrder(Ids({e \in world : e.LeaveTrace}))
           cmds == IF ~s.enable_tracing THEN <<>>
                   ELSE TraceMarkers(world, s, transforms, nextId)
       IN  /\ settings' = s
           /\ meshes' = IF settings.tracing_mesh = 0 THEN meshes + 1 ELSE meshes
           /\ materials' = IF settings.tracing_material = 0 THEN materials + 1
                           ELSE materials
           /\ nextId' = nextId + Len(cmds)
           /\ world' = ApplyCommands(world, cmds)
    /\ fixedRuns' = fixedRuns + 1
    /\ UNCHANGED <<queue, restartEvents, cleanEvents, phase, pending, inputs,
                   generation>>

(* pdrust::PDRustPlugin (line 105): the external solver moves the bodies.  *)
(* Of its motion the model keeps two positions of a central body: where it *)
(* was spawned (at rest) and one unit below (falling)                      *)
PhysicsStep ==
    /\ phase = "fixed"
    /\ \E e \in world : e.role = "central"
    /\ world' = { IF e.role = "central"
                  THEN [e EXCEPT !.y = IF e.y = e.sy THEN e.sy - Fx(1) ELSE e.sy,
                                 !.lin_vel = IF e.y = e.sy THEN -Fx(1) ELSE 0]
                  ELSE e : e \in world }
    /\ UNCHANGED <<settings, queue, restartEvents, cleanEvents, nextId, meshes,
                   materials, phase, pending, fixedRuns, inputs, generation>>

(* Mutant of demo_settings_ui: a click on the checkbox sends a             *)
(* CleanTraceEvent whichever way the flag goes                             *)
demo_settings_ui_clean_on_click(slider, req, checkbox, start) ==
    /\ phase \in {"fixed", "update"}
    /\ "demo_settings_ui" \in pending
    /\ inputs' = inputs + (IF slider # "none" THEN 1 ELSE 0)
                        + (IF checkbox THEN 1 ELSE 0) + (IF start THEN 1 ELSE 0)
    /\ inputs' <= MaxInputs
    /\ LET l == settings.l
           edited ==
             [settings EXCEPT
                !.m1 = Slider(@, Fx(5), Fx(100), slider = "m1", req),
                !.m2 = Slider(@, Fx(5), Fx(100), slider = "m2", req),
                !.mc = Slider(@, Fx(5), Fx(100), slider = "mc", req),
                !.l = Slider(@, Fx(5), Fx(20), slider = "l", req),
                !.x_0 = Slider(@, -l, l, slider = "x_0", req),
                !.enable_tracing = IF checkbox THEN ~@ ELSE @]
       IN  /\ settings' = edited
           /\ cleanEvents' = IF checkbox THEN Send(cleanEvents) ELSE cleanEvents
           /\ restartEvents' = IF start THEN Send(restartEvents) ELSE restartEvents
    /\ pending' = pending \ {"demo_settings_ui"}
    /\ phase' = "update"
    /\ fixedRuns' = 0
    /\ UNCHANGED <<world, queue, nextId, meshes, materials, generation>>

(* Mutant of demo_settings_ui: an edited central mass is written through   *)
(* to the body that is in the world                                        *)
demo_settings_ui_live_masses(slider, req, checkbox, start) ==
    /\ phase \in {"fixed", "update"}
    /\ "demo_settings_ui" \in pending
    /\ inputs' = inputs + (IF slider # "none" THEN 1 ELSE 0)
                        + (IF checkbox THEN 1 ELSE 0) + (IF start THEN 1 ELSE 0)
    /\ inputs' <= MaxInputs
    /\ LET l == settings.l
           edited ==
             [settings EXCEPT
                !.m1 = Slider(@, Fx(5), Fx(100), slider = "m1", req),
                !.m2 = Slider(@, Fx(5), Fx(100), slider = "m2", req),
                !.mc = Slider(@, Fx(5), Fx(100), slider = "mc", req),
                !.l = Slider(@, Fx(5), Fx(20), slider = "l", req),
                !.x_0 = Slider(@, -l, l, slider = "x_0", req),
                !.enable_tracing = IF checkbox THEN ~@ ELSE @]
       IN  /\ settings' = edited
           /\ cleanEvents' = IF checkbox /\ ~edited.enable_tracing
                             THEN Send(cleanEvents) ELSE cleanEvents
           /\ restartEvents' = IF start THEN Send(restartEvents) ELSE restartEvents
           /\ world' = { IF e.role = "central" THEN [e EXCEPT !.mass = edited.mc]
                         ELSE e : e \in world }
    /\ pending' = pending \ {"demo_settings_ui"}
    /\ phase' = "update"
    /\ fixedRuns' = 0
    /\ UNCHANGED <<queue, nextId, meshes, materials, generation>>

(* Update: demo_settings_ui (lines 163-199); slider, checkbox and start    *)
(* say which widgets the user acts on in this frame (one slider at most);  *)
(* inputs counts the widgets acted on                                      *)
demo_settings_ui(slider, req, checkbox, start) ==
    /\ phase \in {"fixed", "update"}
    /\ "demo_settings_ui" \in pending
    /\ inputs' = inputs + (IF slider # "none" THEN 1 ELSE 0)
                        + (IF checkbox THEN 1 ELSE 0) + (IF start THEN 1 ELSE 0)
    /\ inputs' <= MaxInputs
    /\ LET l == settings.l
           edited ==
             [settings EXCEPT
                !.m1 = Slider(@, Fx(5), Fx(100), slider = "m1", req),
                !.m2 = Slider(@, Fx(5), Fx(100), slider = "m2", req),
                !.mc = Slider(@, Fx(5), Fx(100), slider = "mc", req),
                !.l = Slider(@, Fx(5), Fx(20), slider = "l", req),
                !.x_0 = Slider(@, -l, l, slider = "x_0", req),
                !.enable_tracing = IF checkbox THEN ~@ ELSE @]
       IN  /\ settings' = edited
           /\ cleanEvents' = IF checkbox /\ ~edited.enable_tracing
                             THEN Send(cleanEvents) ELSE cleanEvents
           /\ restartEvents' = IF start THEN Send(restartEvents) ELSE restartEvents
    /\ pending' = pending \ {"demo_settings_ui"}
    /\ phase' = "update"
    /\ fixedRuns' = 0
    /\ UNCHANGED <<world, queue, nextId, meshes, materials, generation>>

(* Mutant of MeshesQuery: the trace markers are left out of the query *)
MeshesQueryWithoutTrace(W) ==
    IdsInOrder(Ids({e \in W : e.mesh # 0 /\ ~e.MeshTrace}))

(* meshes_query: Query<Entity, With<Handle<Mesh>>> (line 227) *)
MeshesQuery(W) == IdsInOrder(Ids({e \in W : e.mesh # 0}))

(* Update: restart_simulation (lines 222-330) *)
restart_simulation ==
    /\ phase \in {"fixed", "update"}
    /\ "restart_simulation" \in pending
    /\ LET meshes_query == MeshesQuery(world)
           st == RestartLoop(Unread(restartEvents), settings, meshes_query,
                             [ q |-> queue, nextId |-> nextId, meshes |-> meshes,
                               materials |-> materials, generation |-> generation ])
       IN  /\ queue' = st.q
           /\ nextId' = st.nextId
           /\ meshes' = st.meshes
           /\ materials' = st.materials
           /\ generation' = st.generation
    /\ restartEvents' = <<0, 0>>
    /\ pending' = pending \ {"restart_simulation"}
    /\ phase' = "update"
    /\ fixedRuns' = 0
    /\ UNCHANGED <<settings, world, cleanEvents, inputs>>

(* Mutant of CleanLoop: the last marker of the query is not despawned *)
CleanLoopSkipsLast(n, ids) ==
    IF n = 0 THEN <<>>
    ELSE [k \in 1..(Len(ids) - 1) |-> DespawnCmd(ids[k])]

(* for _ in clean_trace_event.read() { query.for_each(despawn) } *)
RECURSIVE CleanLoop(_, _)
CleanLoop(n, ids) ==
    IF n = 0 THEN <<>>
    ELSE [k \in 1..Len(ids) |-> DespawnCmd(ids[k])] \o CleanLoop(n - 1, ids)

(* Mutant of TraceQuery: the query of restart_simulation is used *)
TraceQueryAllMeshes(W) == IdsInOrder(Ids({e \in W : e.mesh # 0}))

(* query: Query<Entity, With<MeshTrace>> (line 156) *)
TraceQuery(W) == IdsInOrder(Ids({e \in W : e.MeshTrace}))

(* Update: clean_trace (lines 153-161) *)
clean_trace ==
    /\ phase \in {"fixed", "update"}
    /\ "clean_trace" \in pending
    /\ LET query == TraceQuery(world)
       IN  queue' = queue \o CleanLoop(Unread(cleanEvents), query)
    /\ cleanEvents' = <<0, 0>>
    /\ pending' = pending \ {"clean_trace"}
    /\ phase' = "update"
    /\ fixedRuns' = 0
    /\ UNCHANGED <<settings, world, restartEvents, nextId, meshes, materials,
                   inputs, generation>>

(* The end of Update: the commands its systems queued are applied, and the *)
(* frame ends                                                              *)
ApplyDeferred ==
    /\ phase = "update"
    /\ pending = {}
    /\ world' = ApplyCommands(world, queue)
    /\ queue' = <<>>
    /\ phase' = "first"
    /\ UNCHANGED <<settings, restartEvents, cleanEvents, nextId, meshes,
                   materials, pending, fixedRuns, inputs, generation>>

Next ==
    \/ setup_camera_and_light
    \/ First
    \/ leave_trace_system
    \/ PhysicsStep
    \/ \E checkbox \in BOOLEAN, start \in BOOLEAN :
         \/ demo_settings_ui("none", 0, checkbox, start)
         \/ \E slider \in SliderNames : \E req \in Requests(slider) :
              demo_settings_ui(slider, req, checkbox, start)
    \/ restart_simulation
    \/ clean_trace
    \/ ApplyDeferred

Spec == Init /\ [][Next]_vars

----------------------------------------------------------------------------
(* Vocabulary of the properties *)

(* Query<Entity, With<MeshTrace>> (line 156) *)
Markers(W) == {e \in W : e.MeshTrace}

(* Query<&Transform, With<LeaveTrace>> (line 53) *)
Traceables(W) == {e \in W : e.LeaveTrace}

(* The bodies, pulleys and decoration restart_simulation spawns *)
Scene(W) == {e \in W : e.role \in {"side", "central", "pulley", "decoration"}}

Count(W, role) == Cardinality({e \in W : e.role = role})

(* What a generation looks like whatever the entity and asset ids are *)
Placement(e) ==
    [ role |-> e.role, mass |-> e.mass, x |-> e.x, y |-> e.sy, len |-> e.len ]

(* Every queued command has been applied *)
Applied == queue = <<>>

(* Steps of the systems, told from the state they leave behind *)
RestartStep == "restart_simulation" \in pending /\ "restart_simulation" \notin pending'
CleanStep == "clean_trace" \in pending /\ "clean_trace" \notin pending'
SamplingStep == fixedRuns' = fixedRuns + 1
EndOfUpdate == phase = "update" /\ phase' = "first"

DespawnedBy(q) == {q[k].id : k \in {j \in 1..Len(q) : q[j].op = "despawn"}}
SpawnedBy(q) == {q[k].ent : k \in {j \in 1..Len(q) : q[j].op = "spawn"}}

----------------------------------------------------------------------------
(* C1: once the commands of a handled Restart are applied, every scene     *)
(* entity (body, pulley, decoration, marker) belongs to the generation of  *)
(* the most recently handled RestartEvent; nothing older is left.          *)
C1_RestartClearsPreviousGeneration ==
    (Applied /\ generation > 0) =>
        \A e \in world : e.role \in SceneRoles => e.gen = generation

(* C2: however many RestartEvents were handled, one after the other or in  *)
(* the same run, the scene holds 2 side bodies, 1 central body, 2 pulleys  *)
(* and 1 decoration, at six different placements.                          *)
C2_RestartIdempotent ==
    (Applied /\ generation > 0) =>
        /\ Count(world, "side") = 2
        /\ Count(world, "central") = 1
        /\ Count(world, "pulley") = 2
        /\ Count(world, "decoration") = 1
        /\ Cardinality({Placement(e) : e \in Scene(world)}) = 6

(* C3: when enable_tracing goes from true to false a CleanTraceEvent is    *)
(* sent; once it has been read and the commands applied there is no trace  *)
(* marker, however many there were; and no marker appears while the flag   *)
(* stays false.                                                            *)
C3_DisablingTracingClearsMarkers ==
    /\ [][(settings.enable_tracing /\ ~settings'.enable_tracing)
            => cleanEvents' = Send(cleanEvents)]_vars
    /\ [](( ~settings.enable_tracing /\ Unread(cleanEvents) = 0 /\ Applied)
            => Markers(world) = {})
    /\ [][(~settings.enable_tracing /\ ~settings'.enable_tracing)
            => Markers(world') \subseteq Markers(world)]_vars

(* C3 witness: tracing is off and clean_trace has queued the despawn of    *)
(* two accumulated markers                                                 *)
C3_Witness ==
    /\ ~settings.enable_tracing
    /\ Unread(cleanEvents) = 0
    /\ Cardinality(Markers(world)) = 2
    /\ Ids(Markers(world)) \subseteq DespawnedBy(queue)
    /\ SpawnedBy(queue) = {}

(* C4: with tracing on and exactly one traceable entity, a run of          *)
(* leave_trace_system adds exactly one marker, at the current transform of *)
(* that entity, and removes nothing; a handled CleanTraceEvent queues the  *)
(* despawn of every marker, and none of them outlives the end of Update.   *)
C4_OneMarkerPerSample ==
    /\ [][(SamplingStep /\ settings.enable_tracing
             /\ Cardinality(Traceables(world)) = 1)
            => \E t \in Traceables(world) : \E m \in world' :
                  /\ m \notin world
                  /\ m.MeshTrace /\ m.x = t.x /\ m.y = t.y
                  /\ world' = world \cup {m}
                  /\ Cardinality(Markers(world')) = Cardinality(Markers(world)) + 1]_vars
    /\ [][(CleanStep /\ Unread(cleanEvents) > 0)
            => Ids(Markers(world)) \subseteq DespawnedBy(queue')]_vars
    /\ [][EndOfUpdate => Ids(world') \cap DespawnedBy(queue) = {}]_vars

(* C4 witness: two markers sampled from the one traceable body, after it   *)
(* has moved                                                               *)
C4_Witness ==
    /\ settings.enable_tracing
    /\ Cardinality(Traceables(world)) = 1
    /\ Cardinality(Markers(world)) = 2
    /\ \E t \in Traceables(world) : \E m \in Markers(world) :
          m.y = t.y /\ t.y # t.sy

(* The five simulation parameters have their default values *)
DefaultParams(s) ==
    /\ s.m1 = Fx(10) /\ s.m2 = Fx(10) /\ s.mc = Fx(10)
    /\ s.l = Fx(10) /\ s.x_0 = -Fx(5)

(* The scene of the defaults, in numbers: pulleys at (-5, 0) and (5, 0),   *)
(* cable 15, equilibrium y -2.887, central body at y -7.887, side bodies   *)
(* 15 - sqrt(25 + 7.887^2) = 5.662 below the pulleys                       *)
DefaultScene ==
    { [role |-> "side", mass |-> 10000, x |-> -5000, y |-> -5662, len |-> 0],
      [role |-> "side", mass |-> 10000, x |-> 5000, y |-> -5662, len |-> 0],
      [role |-> "central", mass |-> 10000, x |-> 0, y |-> -7887, len |-> 0],
      [role |-> "pulley", mass |-> 0, x |-> -5000, y |-> 0, len |-> 15000],
      [role |-> "pulley", mass |-> 0, x |-> 5000, y |-> 0, len |-> 15000],
      [role |-> "decoration", mass |-> 0, x |-> 0, y |-> -2887, len |-> 0] }

(* The entities a step of restart_simulation asks to spawn *)
NewlySpawned == SpawnedBy(queue') \ SpawnedBy(queue)

(* How far the first frame is from its end *)
StepsToEndOfFrame ==
    CASE phase = "startup" -> 6
      [] phase = "first" -> 5
      [] OTHER -> Cardinality(pending) + 1

(* C5: Startup sends exactly one RestartEvent, and RestartEvents are sent  *)
(* by Startup and by user input only; the scene gets populated (every step *)
(* that leaves it empty brings the end of the first frame nearer), and     *)
(* every frame ends with a populated scene; as long as the user has done   *)
(* nothing exactly one Restart has been handled and the scene is the scene *)
(* of the defaults; and a single RestartEvent handled with the default     *)
(* parameters, whoever sent it, spawns that same scene.                    *)
C5_StartupRestart ==
    /\ [][Scene(world') = {} => StepsToEndOfFrame' < StepsToEndOfFrame]_vars
    /\ [][phase = "startup" => restartEvents' = <<0, 1>>]_vars
    /\ [][Unread(restartEvents') > Unread(restartEvents)
            => (phase = "startup" \/ inputs' > inputs)]_vars
    /\ [][EndOfUpdate => Scene(world') # {}]_vars
    /\ []((inputs = 0 /\ Applied /\ phase # "startup" /\ phase # "first")
            => generation <= 1)
    /\ []((inputs = 0 /\ Applied /\ generation > 0)
            => (generation = 1 /\ {Placement(e) : e \in Scene(world)} = DefaultScene))
    /\ [][(RestartStep /\ Unread(restartEvents) = 1 /\ DefaultParams(settings))
            => {Placement(e) : e \in NewlySpawned} = DefaultScene]_vars

(* C5 witness: a Restart the user issued with the default parameters has   *)
(* been handled after the one of Startup                                   *)
C5_Witness ==
    /\ Applied /\ generation = 2 /\ inputs = 1
    /\ Cardinality(Scene(world)) = 6
    /\ \A e \in Scene(world) : e.gen = 2
    /\ {Placement(e) : e \in Scene(world)} = DefaultScene

(* C6: for each pulley, the distance from its anchor to the spawn position *)
(* of the central body plus the drop of its side body below the anchor is  *)
(* the cable length of the pulley, and the side bodies of one generation   *)
(* have the same drop.                                                     *)
C6_CableLengthInvariant ==
    \A p \in world : p.role = "pulley" =>
        \E sb \in world : \E c \in world :
            /\ sb.id = p.a /\ sb.role = "side"
            /\ c.id = p.b /\ c.role = "central"
            /\ Length(p.x - c.x, p.sy - c.sy) + (p.sy - sb.sy) = p.len
            /\ \A o \in world : (o.role = "side" /\ o.gen = sb.gen) => o.sy = sb.sy

(* C6 witness: a scene built with a span and an offset that are not the    *)
(* defaults, the central body above the pulleys                            *)
C6_Witness ==
    \E p \in world : \E c \in world :
        /\ p.role = "pulley" /\ p.len # 15000
        /\ c.id = p.b /\ c.sy > 0

(* C7: the pulleys a handled Restart spawns are anchored at (-L/2, 0) for  *)
(* side body A and (L/2, 0) for side body B, both with cable length        *)
(* 3 * (L/2), whatever the masses and x_0 are; for L = 10 that is (-5, 0), *)
(* (5, 0) and 15.                                                          *)
C7_PulleyAnchors ==
    [][(RestartStep /\ Unread(restartEvents) > 0) =>
         LET L == settings.l
             pulleys == {e \in NewlySpawned : e.role = "pulley"}
             sides == {e \in NewlySpawned : e.role = "side"}
         IN  /\ {<<2 * e.x, e.sy, 2 * e.len>> : e \in pulleys}
                  = {<<-L, 0, 3 * L>>, <<L, 0, 3 * L>>}
             /\ \A e \in pulleys : \E sb \in sides :
                  /\ sb.id = e.a /\ sb.gen = e.gen /\ sb.x = e.x
                  /\ (2 * e.x = -L) <=>
                       (\A o \in sides : o.gen = sb.gen => sb.id <= o.id)
             /\ L = Fx(10) =>
                  {<<e.x, e.sy, e.len>> : e \in pulleys}
                    = {<<-5000, 0, 15000>>, <<5000, 0, 15000>>}]_vars

(* C7 witness: pulleys of a span of 20 with a central mass that is not the *)
(* default                                                                 *)
C7_Witness ==
    \E p \in world : \E c \in world :
        /\ p.role = "pulley" /\ p.x = -10000 /\ p.len = 30000
        /\ c.id = p.b /\ c.mass # 10000

(* C8: every side body is spawned at or below the anchor of its pulley     *)
C8_SideBodiesBelowPulleys ==
    \A p \in world : p.role = "pulley" =>
        \A sb \in world : sb.id = p.a => sb.sy <= p.sy

(* C9: the three masses stay in [5, 100] and the span length in [5, 20]    *)
C9_ParametersInRange ==
    /\ \A m \in {settings.m1, settings.m2, settings.mc} : Fx(5) <= m /\ m <= Fx(100)
    /\ Fx(5) <= settings.l /\ settings.l <= Fx(20)

(* C9 witness: requests for 0 and for more than the maximum were clamped   *)
C9_Witness ==
    settings.m1 = Fx(5) /\ settings.m2 = Fx(100) /\ settings.l = Fx(20)

(* C10: the initial offset is within the current span: -L <= x_0 <= L      *)
C10_OffsetWithinSpan ==
    -settings.l <= settings.x_0 /\ settings.x_0 <= settings.l

----------------------------------------------------------------------------
(* A step of the external solver: in FixedUpdate the world changes without *)
(* a run of leave_trace_system                                             *)
SimulationStep == phase = "fixed" /\ fixedRuns' = fixedRuns /\ world' # world

(* The generations that have scene entities in the world *)
SceneGenerations(W) == {e.gen : e \in Scene(W)}

(* A scene is whole: one generation, with all six of its entities *)
WholeScene(W) ==
    /\ Cardinality(SceneGenerations(W)) = 1
    /\ Count(W, "side") = 2 /\ Count(W, "central") = 1
    /\ Count(W, "pulley") = 2 /\ Count(W, "decoration") = 1

(* C11: a RestartEvent or CleanTraceEvent the settings window sends in a   *)
(* frame is read in the Update of that same frame, after the settings      *)
(* window has written the parameters of that frame, and before the next    *)
(* trace sampling: Update ends with no event unread, an event of the       *)
(* settings window is never read while the window has yet to run, and      *)
(* leave_trace_system never runs with an event unread.                     *)
C11_SameTickDispatch ==
    /\ [][EndOfUpdate
            => (Unread(restartEvents) = 0 /\ Unread(cleanEvents) = 0)]_vars
    /\ [][(RestartStep /\ generation > 0 /\ Unread(restartEvents) > 0)
            => "demo_settings_ui" \notin pending]_vars
    /\ [][(CleanStep /\ Unread(cleanEvents) > 0)
            => "demo_settings_ui" \notin pending]_vars
    /\ [][SamplingStep
            => (Unread(restartEvents) = 0 /\ Unread(cleanEvents) = 0 /\ Applied)]_vars

(* C12: whenever the solver steps or leave_trace_system samples, no        *)
(* command of a Restart is waiting to be applied and the scene is whole:   *)
(* the six entities of one generation, none of an older one beside them.   *)
C12_RestartAtomic ==
    [][(SimulationStep \/ SamplingStep)
         => (Applied /\ (Scene(world) # {} => WholeScene(world)))]_vars

(* C13: once the commands of a handled Restart are applied there is        *)
(* exactly one entity with LeaveTrace, the central body of the generation  *)
(* of the most recently handled RestartEvent.                              *)
C13_ExactlyOneTraceable ==
    (Applied /\ generation > 0) =>
        \E c \in world :
            /\ Traceables(world) = {c}
            /\ c.role = "central" /\ c.gen = generation

----------------------------------------------------------------------------
(* The end of an Update in which restart_simulation handled an event *)
RestartApplied == EndOfUpdate /\ SpawnedBy(queue) # {}

(* The commands a step has added to the queue *)
NewCommands == SubSeq(queue', Len(queue) + 1, Len(queue'))

(* C14: restart_simulation writes no field of the settings; handling a     *)
(* RestartEvent queues the despawn of every trace marker, and when its     *)
(* commands are applied no marker is left while the tracing flag and the   *)
(* parameters stay as they are; with the flag still set, the next run of   *)
(* leave_trace_system puts a marker at the central body of the new         *)
(* generation.                                                             *)
C14_RestartKeepsSettingsClearsMarkers ==
    /\ [][RestartStep => settings' = settings]_vars
    /\ [][(RestartStep /\ Unread(restartEvents) > 0)
            => Ids(Markers(world)) \subseteq DespawnedBy(queue')]_vars
    /\ [][RestartApplied => (Markers(world') = {} /\ settings' = settings)]_vars
    /\ [][(SamplingStep /\ settings.enable_tracing /\ generation > 0)
            => \E c \in Traceables(world) : \E m \in Markers(world') \ world :
                  /\ c.role = "central" /\ c.gen = generation
                  /\ m.x = c.x /\ m.y = c.y]_vars

(* C14 witness: tracing was on and a marker (entity 9) had been sampled    *)
(* when a second Restart was handled; that marker is gone, tracing is      *)
(* still on, and the markers there are were sampled from the central body  *)
(* of generation 2 (entity 12)                                             *)
C14_Witness ==
    /\ Applied /\ generation = 2 /\ settings.enable_tracing
    /\ \A e \in Scene(world) : e.gen = 2
    /\ \E c \in Traceables(world) : c.id = 12
    /\ Markers(world) # {}
    /\ \A m \in Markers(world) : m.id > 12 /\ m.gen = 2

(* C15: handling a CleanTraceEvent changes neither the settings nor the    *)
(* world and queues nothing but despawns of trace markers; when the        *)
(* commands of an Update without a handled Restart are applied, what       *)
(* leaves the world are trace markers only, and bodies, pulleys, the       *)
(* decoration and the settings are as before.                              *)
C15_ClearTraceOnlyMarkers ==
    /\ [][CleanStep =>
            /\ settings' = settings /\ world' = world
            /\ SubSeq(queue', 1, Len(queue)) = queue
            /\ \A k \in 1..Len(NewCommands) :
                  /\ NewCommands[k].op = "despawn"
                  /\ NewCommands[k].id \in Ids(Markers(world))]_vars
    /\ [][(EndOfUpdate /\ ~RestartApplied) =>
            /\ settings' = settings
            /\ world' \subseteq world
            /\ world \ world' \subseteq Markers(world)]_vars

(* C15 witness: the marker sampled from the first generation (entity 9)    *)
(* has been cleared, and the six entities of that generation are there     *)
C15_Witness ==
    /\ Applied /\ generation = 1 /\ nextId = 10
    /\ ~settings.enable_tracing
    /\ Markers(world) = {}
    /\ WholeScene(world)

----------------------------------------------------------------------------
(* The spawn commands among the commands a step has queued, in order *)
IsSpawn(c) == c.op = "spawn"
NewSpawns == SelectSeq(NewCommands, IsSpawn)

(* The k-th entity the j-th handled event of a step asks to spawn *)
Created(j, k) == NewSpawns[6 * (j - 1) + k].ent

(* C16: for each RestartEvent a run of restart_simulation handles, the     *)
(* spawn commands it queues are, in this order: side body A (mass m1, at   *)
(* x = -L/2), side body B (mass m2, at x = L/2), the central body (mass    *)
(* mc, x_0 above the equilibrium point), pulley 1 (side A, central body,   *)
(* anchored over side A at y = 0), pulley 2 (side B, central body,         *)
(* anchored over side B), the decoration at the equilibrium point; the     *)
(* bodies a pulley names come earlier among the six; the values are those  *)
(* of the settings at that step, which the step does not change; and the   *)
(* bodies are spawned with zero linear and angular velocity.               *)
C16_CreationOrder ==
    [][(RestartStep /\ Unread(restartEvents) > 0) =>
         /\ settings' = settings
         /\ Len(NewSpawns) = 6 * Unread(restartEvents)
         /\ \A j \in 1..Unread(restartEvents) :
              LET A == Created(j, 1)
                  B == Created(j, 2)
                  C == Created(j, 3)
                  P1 == Created(j, 4)
                  P2 == Created(j, 5)
                  D == Created(j, 6)
              IN  /\ A.role = "side" /\ A.mass = settings.m1
                  /\ B.role = "side" /\ B.mass = settings.m2
                  /\ C.role = "central" /\ C.mass = settings.mc
                  /\ 2 * A.x = -settings.l /\ 2 * B.x = settings.l /\ C.x = 0
                  /\ A.y = B.y
                  /\ P1.role = "pulley" /\ P1.a = A.id /\ P1.b = C.id
                  /\ P1.x = A.x /\ P1.y = 0
                  /\ P2.role = "pulley" /\ P2.a = B.id /\ P2.b = C.id
                  /\ P2.x = B.x /\ P2.y = 0
                  /\ P1.len = P2.len
                  /\ D.role = "decoration" /\ D.x = 0
                  /\ C.y - D.y = settings.x_0
                  /\ Cardinality({A.id, B.id, C.id, P1.id, P2.id, D.id}) = 6
                  /\ \A e \in {A, B, C} :
                        e.lin_vel = 0 /\ e.ang_vel = 0 /\ e.gen = P1.gen]_vars

(* C16 witness: restart_simulation has handled a Restart issued with m1    *)
(* lowered to 5: the queue despawns the old scene and spawns a side body   *)
(* of mass 5 and a pulley on it                                            *)
C16_Witness ==
    /\ "restart_simulation" \notin pending /\ generation = 2
    /\ DespawnedBy(queue) # {}
    /\ \E sb \in SpawnedBy(queue) : \E p \in SpawnedBy(queue) :
          /\ sb.role = "side" /\ sb.mass = Fx(5) /\ sb.gen = 2
          /\ p.role = "pulley" /\ p.a = sb.id

----------------------------------------------------------------------------
(* The positions of a queue whose command is not a despawn already asked   *)
(* for at an earlier position                                              *)
FirstRequests(q) ==
    {k \in 1..Len(q) : q[k].op = "despawn" => \A j \in 1..(k - 1) : q[j] # q[k]}

(* The queue with every despawn asked for once *)
WithoutRepeats(q) ==
    LET keep == IdsInOrder(FirstRequests(q))
    IN  [n \in 1..Len(keep) |-> q[keep[n]]]

----------------------------------------------------------------------------
(* C18: a trace mesh handle or trace material handle that is set is never  *)
(* written again, by any step; a run of leave_trace_system adds an asset   *)
(* only for a handle that is not set yet; and every trace marker in the    *)
(* world has the mesh and the material the settings hold.                  *)
C18_TraceHandlesCreatedOnce ==
    /\ [][settings.tracing_mesh # 0
            => settings'.tracing_mesh = settings.tracing_mesh]_vars
    /\ [][settings.tracing_material # 0
            => settings'.tracing_material = settings.tracing_material]_vars
    /\ [][SamplingStep =>
            /\ meshes' = meshes + (IF settings.tracing_mesh = 0 THEN 1 ELSE 0)
            /\ materials' = materials
                             + (IF settings.tracing_material = 0 THEN 1 ELSE 0)]_vars
    /\ [](\A m \in Markers(world) :
            /\ m.mesh # 0 /\ m.mesh = settings.tracing_mesh
            /\ m.material # 0 /\ m.material = settings.tracing_material)

(* C18 witness: two markers sampled after a second Restart, with the       *)
(* handles created before it, and 13 meshes in all: six for each           *)
(* generation and one for the trace                                        *)
C18_Witness ==
    /\ generation = 2 /\ meshes = 13
    /\ Cardinality(Markers(world)) = 2
    /\ \A m \in Markers(world) : m.mesh = 7 /\ m.mesh = settings.tracing_mesh

----------------------------------------------------------------------------
(* C19: a step that sets enable_tracing changes neither the world nor the  *)
(* command queue and sends no CleanTraceEvent; a trace marker enters the   *)
(* world only in a run of leave_trace_system with the flag set; and a run  *)
(* of leave_trace_system with the flag not set leaves the world as it is.  *)
C19_EnablingTracingTouchesNothing ==
    /\ [][(~settings.enable_tracing /\ settings'.enable_tracing)
            => (world' = world /\ queue' = queue
                /\ cleanEvents' = cleanEvents)]_vars
    /\ [][Markers(world') \ Markers(world) # {}
            => (SamplingStep /\ settings.enable_tracing)]_vars
    /\ [][(SamplingStep /\ ~settings.enable_tracing)
            => (world' = world /\ queue' = queue)]_vars

(* C19 witness: tracing has just been switched on, after runs of           *)
(* leave_trace_system with the flag not set (the handles are there); no    *)
(* entity but the eight of Startup and the first Restart was ever spawned  *)
C19_Witness ==
    /\ phase = "update" /\ settings.enable_tracing
    /\ settings.tracing_mesh # 0
    /\ nextId = 9 /\ Markers(world) = {} /\ WholeScene(world)
    /\ Unread(cleanEvents) = 0 /\ queue = <<>>

(* The five simulation parameters of the settings *)
ParamsOf(s) == <<s.m1, s.m2, s.mc, s.l, s.x_0>>

(* C20: a step that changes a parameter changes neither the world nor the  *)
(* command queue and spawns nothing; and the masses and placements of the  *)
(* scene change only when the commands of a handled Restart are applied.   *)
C20_EditChangesOnlyParameters ==
    /\ [][ParamsOf(settings') # ParamsOf(settings)
            => (world' = world /\ queue' = queue /\ nextId' = nextId)]_vars
    /\ [][{Placement(e) : e \in Scene(world')} # {Placement(e) : e \in Scene(world)}
            => RestartApplied]_vars

(* C20 witness: m1 and L have been edited and no Restart issued: the scene *)
(* is still the scene of the defaults                                      *)
C20_Witness ==
    /\ Applied /\ generation = 1 /\ Unread(restartEvents) = 0
    /\ settings.m1 = Fx(5) /\ settings.l = Fx(20)
    /\ {Placement(e) : e \in Scene(world)} = DefaultScene

====
